---- MODULE Spec2Model ----
(***************************************************************************)
(* Model of the PocketIC client core: the process supervisor               *)
(* (packages/pic/src/pocket-ic-server.ts) and the protocol codec           *)
(* (pocket-ic-client-types, src/unnamed/part_000).                         *)
(*                                                                         *)
(* Spec      : the supervisor as a state machine (start / poll / stop and  *)
(*             the subprocess and its readiness file as the environment).  *)
(* FairSpec  : Spec with the fairness the event loop and the OS give.      *)
(* CodecSpec : the pure codec functions applied to bounded inputs.         *)
(***************************************************************************)
EXTENDS Integers, Sequences, FiniteSets, TLC

VARIABLES
  binExists,       \* the simulator binary is present at BinPath
  binMode,         \* permission bits of the binary ("orig" until chmodSync)
  platform,        \* what isArm() / isDarwin() report
  host,            \* the Node process: "running" or "crashed"
  uncaught,        \* errors that escaped every handler, in order
  files,           \* temp directory: path -> content (NoFile when absent)
  phase,           \* per launch: position of the start() call
  failure,         \* per launch: error the start() promise rejected with
  instance,        \* per launch: the PocketIcServer returned (or NoInstance)
  proc,            \* per launch: the spawned subprocess
  procPort,        \* per launch: port the subprocess listens on (0: none yet)
  signalled,       \* per launch: SIGTERM was delivered to the subprocess
  errorListeners,  \* per launch: 'error' listeners of serverProcess, in order
  exitListeners,   \* per launch: 'exit' listeners of serverProcess, in order
  elapsed,         \* per launch: Date.now() - startTimeMs of its poll
  portString,      \* per launch: what the last poll attempt read
  stops,           \* per launch: the promises returned by stop(), in order
  op,              \* codec: the function applied last
  input,           \* codec: its argument
  output,          \* codec: its outcome
  prior            \* codec: the argument of the call whose result is input

supervisorVars ==
  << binExists, binMode, platform, host, uncaught, files,
     phase, failure, instance, proc, procPort, signalled, errorListeners,
     exitListeners, elapsed, portString, stops >>

codecVars == << op, input, output, prior >>

vars == << supervisorVars, codecVars >>

-----------------------------------------------------------------------------
(* Bounds of the model *)

MaxStops == 2         \* stop() calls explored per instance
MaxOnTimeTicks == 1   \* timer callbacks firing exactly on time, per stretch
LateTickMs == 15000   \* delay of a timer callback that fires late

\* The start() calls explored: two launches from one host process.
Launches == {1, 2}

(* Program constants *)

POLL_INTERVAL_MS == 20
POLL_TIMEOUT_MS == 30000

-----------------------------------------------------------------------------
(* Values *)

NoFile == << "ENOENT" >>
NaN == [nan |-> TRUE, value |-> 0]
NoError == [name |-> "none", detail |-> << >>]
NoInstance == [serverProcess |-> 0, url |-> << >>]

Digits == << "0", "1", "2", "3", "4", "5", "6", "7", "8", "9" >>

IsDigit(c) == \E i \in 1..10 : Digits[i] = c

DigitValue(c) == (CHOOSE i \in 1..10 : Digits[i] = c) - 1

IsWhiteSpace(c) == c \in {" ", "\n", "\t", "\r"}

\* Number -> string conversion of a template literal / String(n).
RECURSIVE NatToChars(_)
NatToChars(n) ==
  IF n < 10 THEN << Digits[n + 1] >>
  ELSE NatToChars(n \div 10) \o << Digits[(n % 10) + 1] >>

NumberToChars(n) == IF n < 0 THEN << "-" >> \o NatToChars(-n) ELSE NatToChars(n)

\* parseInt(string) with no radix, on strings without a "0x" prefix:
\* leading white space is skipped, one sign is read, then the longest run of
\* decimal digits; no digit at all gives NaN.
RECURSIVE SkipWhiteSpace(_)
SkipWhiteSpace(s) ==
  IF s # << >> /\ IsWhiteSpace(Head(s)) THEN SkipWhiteSpace(Tail(s)) ELSE s

RECURSIVE ParseDigits(_, _)
ParseDigits(s, acc) ==
  IF s # << >> /\ IsDigit(Head(s))
  THEN ParseDigits(Tail(s), acc * 10 + DigitValue(Head(s)))
  ELSE acc

parseInt(s) ==
  LET t == SkipWhiteSpace(s)
      neg == t # << >> /\ Head(t) = "-"
      u == IF t # << >> /\ Head(t) \in {"-", "+"} THEN Tail(t) ELSE t
  IN IF u = << >> \/ ~IsDigit(Head(u)) THEN NaN
     ELSE [nan |-> FALSE,
           value |-> IF neg THEN 0 - ParseDigits(u, 0) ELSE ParseDigits(u, 0)]

isNaN(n) == n.nan

-----------------------------------------------------------------------------
(* The supervisor: PocketIcServer *)

Ppid == << "ppid" >>

\* The port the operating system gives the simulator of launch l, and the
\* ports a readiness file left by an earlier run may hold.
ListenPort(l) == 8080 + l

StalePorts == {7070}

BinPath == << "__dirname", "..", "pocket-ic" >>

BinNotFoundError(path) == [name |-> "BinNotFoundError", detail |-> path]
BinStartError(cause) == [name |-> "BinStartError", detail |-> cause.detail]
BinStartMacOSArmError(cause) ==
  [name |-> "BinStartMacOSArmError", detail |-> cause.detail]
BinTimeoutError == [name |-> "BinTimeoutError", detail |-> << >>]
SystemError(code) == [name |-> "SystemError", detail |-> << code >>]

getBinPath == BinPath

\* exists(path): whether a file is at path; the binary's path is the one asked.
exists(path) == path = BinPath /\ binExists

\* tmpFile(`pocket_ic_${pid}.port`)
PortFilePath(pid) == << "tmpdir", "pocket_ic_" >> \o pid \o << ".port" >>

\* What the simulator writes once it listens: the port as one text line.
PortLine(p) == NumberToChars(p) \o << "\n" >>

\* readFileAsString: a best-effort read, the empty string when nothing is there.
readFileAsString(path) == IF files[path] = NoFile THEN << >> ELSE files[path]

UrlOf(portNumber) == << "http://127.0.0.1:" >> \o NumberToChars(portNumber)

\* new PocketIcServer(serverProcess, portNumber)
PocketIcServer(serverProcess, portNumber) ==
  [serverProcess |-> serverProcess, url |-> UrlOf(portNumber)]

getUrl(l) == instance[l].url

\* PollCallback without the isNaN test: whatever was parsed becomes the port.
PollCallback_NoNaNCheck(l) ==
  LET content == readFileAsString(PortFilePath(Ppid))
      port == parseInt(content)
  IN [ok |-> TRUE, error |-> NoError,
      value |-> PocketIcServer(l, port.value), read |-> content]

\* The callback handed to poll: one attempt.
PollCallback(l) ==
  LET content == readFileAsString(PortFilePath(Ppid))
      port == parseInt(content)
  IN IF isNaN(port)
     THEN [ok |-> FALSE, error |-> BinTimeoutError, value |-> NoInstance,
           read |-> content]
     ELSE [ok |-> TRUE, error |-> NoError,
           value |-> PocketIcServer(l, port.value), read |-> content]

\* poll: an attempt that succeeds resolves; one that fails is retried at the
\* next interval, and ends the poll with its error once the timeout elapsed.
PollDecision(attempt, elapsedMs, timeoutMs) ==
  IF attempt.ok THEN "resolve"
  ELSE IF elapsedMs >= timeoutMs THEN "reject"
  ELSE "retry"

Platforms ==
  { [arch |-> "arm64", os |-> "darwin"], [arch |-> "arm64", os |-> "linux"],
    [arch |-> "x64", os |-> "darwin"] }

isArm == platform.arch = "arm64"

isDarwin == platform.os = "darwin"

\* The 'error' listener start() registers on serverProcess: what it throws.
StartErrorListener(error) ==
  IF isArm /\ isDarwin THEN BinStartMacOSArmError(error)
  ELSE BinStartError(error)

\* The promise of one stop() call. afterExit and reported are history: the
\* process had exited when stop() was called, and the 'error' the process
\* reported while the promise was pending.
PendingStop(afterExit) ==
  [state |-> "pending", error |-> NoError, afterExit |-> afterExit,
   reported |-> NoError]

RECURSIVE Reported(_, _)
Reported(ps, error) ==
  IF ps = << >> THEN << >>
  ELSE << IF Head(ps).state = "pending"
          THEN [Head(ps) EXCEPT !.reported = error] ELSE Head(ps) >>
       \o Reported(Tail(ps), error)

Settle(ps, k, state, error) ==
  IF ps[k].state = "pending"
  THEN [ps EXCEPT ![k].state = state, ![k].error = error]
  ELSE ps

\* EventEmitter.emit('error', error): the listeners run in registration
\* order; listener 0 is start()'s, listener k > 0 is the k-th stop()'s. A
\* listener that throws ends the emit: the later listeners never run.
RECURSIVE EmitError(_, _, _)
EmitError(listeners, ps, error) ==
  IF listeners = << >> THEN [stops |-> ps, thrown |-> NoError]
  ELSE IF Head(listeners) = 0
       THEN [stops |-> ps, thrown |-> StartErrorListener(error)]
       ELSE EmitError(Tail(listeners),
                      Settle(ps, Head(listeners), "rejected", error), error)

\* EventEmitter.emit('exit'): every registered stop() listener resolves.
RECURSIVE EmitExit(_, _)
EmitExit(listeners, ps) ==
  IF listeners = << >> THEN ps
  ELSE EmitExit(Tail(listeners), Settle(ps, Head(listeners), "resolved", NoError))

-----------------------------------------------------------------------------
(* Supervisor: initial state and actions *)

SupervisorInit ==
  /\ binExists \in BOOLEAN
  /\ binMode = "orig"
  /\ platform \in Platforms
  /\ host = "running"
  /\ uncaught = << >>
  /\ files \in [{PortFilePath(Ppid)} -> {NoFile} \cup {PortLine(p) : p \in StalePorts}]
  /\ phase = [l \in Launches |-> "NotStarted"]
  /\ failure = [l \in Launches |-> NoError]
  /\ instance = [l \in Launches |-> NoInstance]
  /\ proc = [l \in Launches |-> "none"]
  /\ procPort = [l \in Launches |-> 0]
  /\ signalled = [l \in Launches |-> FALSE]
  /\ errorListeners = [l \in Launches |-> << >>]
  /\ exitListeners = [l \in Launches |-> << >>]
  /\ elapsed = [l \in Launches |-> 0]
  /\ portString = [l \in Launches |-> NoFile]
  /\ stops = [l \in Launches |-> << >>]

CodecIdle == op = "none" /\ input = << >> /\ output = << >> /\ prior = << >>

\* start(): getBinPath() and the call of assertBinExists, up to its await.
Start(l) ==
  /\ host = "running"
  /\ phase[l] = "NotStarted"
  /\ phase' = [phase EXCEPT ![l] = "Checking"]
  /\ UNCHANGED << binExists, binMode, platform, host, uncaught,
                  files, failure, instance, proc, procPort, signalled,
                  errorListeners, exitListeners, elapsed, portString, stops >>
  /\ UNCHANGED codecVars

\* assertBinExists without its throw: start() goes on to chmod and spawn.
AssertBinExists_NoThrow(l) ==
  /\ host = "running"
  /\ phase[l] = "Checking"
  /\ ~exists(getBinPath)
  /\ binMode' = "0700"
  /\ proc' = [proc EXCEPT ![l] = "launching"]
  /\ errorListeners' = [errorListeners EXCEPT ![l] = << 0 >>]
  /\ phase' = [phase EXCEPT ![l] = "Starting"]
  /\ UNCHANGED << binExists, platform, host, uncaught, files, failure, instance,
                  procPort, signalled, exitListeners, elapsed, portString, stops >>
  /\ UNCHANGED codecVars

\* assertBinExists: a missing binary throws BinNotFoundError(binPath), which
\* rejects start(); a present one is made executable.
AssertBinExistsFails(l) ==
  /\ host = "running"
  /\ phase[l] = "Checking"
  /\ ~exists(getBinPath)
  /\ phase' = [phase EXCEPT ![l] = "Failed"]
  /\ failure' = [failure EXCEPT ![l] = BinNotFoundError(getBinPath)]
  /\ UNCHANGED << binExists, binMode, platform, host, uncaught,
                  files, instance, proc, procPort, signalled, errorListeners,
                  exitListeners, elapsed, portString, stops >>
  /\ UNCHANGED codecVars

\* The rest of start() up to the first await of poll: chmodSync, spawn with
\* the port file path, the 'error' listener, poll's timer.
Spawn(l) ==
  /\ host = "running"
  /\ phase[l] = "Checking"
  /\ exists(getBinPath)
  /\ binMode' = "0700"
  /\ proc' = [proc EXCEPT ![l] = "launching"]
  /\ errorListeners' = [errorListeners EXCEPT ![l] = << 0 >>]
  /\ elapsed' = [elapsed EXCEPT ![l] = 0]
  /\ phase' = [phase EXCEPT ![l] = "Starting"]
  /\ UNCHANGED << binExists, platform, host, uncaught, files,
                  failure, instance, procPort, signalled, exitListeners,
                  portString, stops >>
  /\ UNCHANGED codecVars

\* The operating system ran the binary.
ProcLaunched(l) ==
  /\ proc[l] = "launching"
  /\ proc' = [proc EXCEPT ![l] = "running"]
  /\ UNCHANGED << binExists, binMode, platform, host, uncaught,
                  files, phase, failure, instance, procPort, signalled,
                  errorListeners, exitListeners, elapsed, portString, stops >>
  /\ UNCHANGED codecVars

\* The launch failed: serverProcess emits 'error' on the next tick, outside
\* any promise. What a listener throws there is an uncaught exception, which
\* ends the host unless an 'uncaughtException' handler is installed.
SpawnError(l) ==
  /\ host = "running"
  /\ proc[l] = "launching"
  /\ LET error == SystemError("spawn")
         r == EmitError(errorListeners[l], Reported(stops[l], error), error)
     IN /\ stops' = [stops EXCEPT ![l] = r.stops]
        /\ IF r.thrown = NoError
           THEN UNCHANGED << host, uncaught >>
           ELSE /\ uncaught' = Append(uncaught, r.thrown)
                /\ host' \in {"running", "crashed"}
  /\ proc' = [proc EXCEPT ![l] = "failed"]
  /\ UNCHANGED << binExists, binMode, platform, files, phase,
                  failure, instance, procPort, signalled, errorListeners,
                  exitListeners, elapsed, portString >>
  /\ UNCHANGED codecVars

\* The simulator listens and writes its port to the file it was given.
ProcWritePort(l) ==
  /\ proc[l] = "running"
  /\ procPort[l] = 0
  /\ procPort' = [procPort EXCEPT ![l] = ListenPort(l)]
  /\ files' = [files EXCEPT ![PortFilePath(Ppid)] = PortLine(ListenPort(l))]
  /\ UNCHANGED << binExists, binMode, platform, host, uncaught,
                  phase, failure, instance, proc, signalled, errorListeners,
                  exitListeners, elapsed, portString, stops >>
  /\ UNCHANGED codecVars

\* Delays of the next timer callback explored from an elapsed time.
TickDelays(e) ==
  {LateTickMs} \cup
  (IF (e % LateTickMs) \div POLL_INTERVAL_MS < MaxOnTimeTicks
   THEN {POLL_INTERVAL_MS} ELSE {})

\* One timer callback of poll: the attempt and what poll does with it. The
\* outcome of the launch is known on the tick after spawn, before any timer.
PollTick(l) ==
  /\ host = "running"
  /\ phase[l] = "Starting"
  /\ proc[l] # "launching"
  /\ \E d \in TickDelays(elapsed[l]) :
       LET now == elapsed[l] + d
           attempt == PollCallback(l)
           decision == PollDecision(attempt, now, POLL_TIMEOUT_MS)
       IN /\ elapsed' = [elapsed EXCEPT ![l] = IF decision = "resolve" THEN 0 ELSE now]
          /\ portString' = [portString EXCEPT ![l] = attempt.read]
          /\ phase' = [phase EXCEPT ![l] =
                         CASE decision = "resolve" -> "Ready"
                           [] decision = "reject" -> "Failed"
                           [] OTHER -> "Starting"]
          /\ instance' = [instance EXCEPT ![l] =
                            IF decision = "resolve" THEN attempt.value ELSE @]
          /\ failure' = [failure EXCEPT ![l] =
                           IF decision = "reject" THEN attempt.error ELSE @]
  /\ UNCHANGED << binExists, binMode, platform, host, uncaught,
                  files, proc, procPort, signalled, errorListeners,
                  exitListeners, stops >>
  /\ UNCHANGED codecVars

\* stop(): the promise's executor registers the 'exit' and the 'error'
\* listener and calls kill(). kill() signals a live process; when the signal
\* cannot be delivered it emits 'error' before it returns, and what a listener
\* throws there leaves the executor, which rejects the promise with it. On a
\* process that is gone kill() does nothing.
Stop(l) ==
  /\ host = "running"
  /\ instance[l] # NoInstance
  /\ Len(stops[l]) < MaxStops
  /\ LET p == instance[l].serverProcess
         k == Len(stops[l]) + 1
         registered == Append(stops[p], PendingStop(proc[p] = "exited"))
         listeners == Append(errorListeners[p], k)
     IN /\ exitListeners' = [exitListeners EXCEPT ![p] = Append(@, k)]
        /\ errorListeners' = [errorListeners EXCEPT ![p] = listeners]
        /\ \E delivered \in (IF proc[p] = "running" THEN BOOLEAN ELSE {FALSE}) :
             IF proc[p] = "running" /\ ~delivered
             THEN LET error == SystemError("kill")
                      r == EmitError(listeners, Reported(registered, error), error)
                  IN /\ stops' = [stops EXCEPT ![p] =
                                    IF r.thrown = NoError THEN r.stops
                                    ELSE Settle(r.stops, k, "rejected", r.thrown)]
                     /\ UNCHANGED signalled
             ELSE /\ stops' = [stops EXCEPT ![p] = registered]
                  /\ signalled' = [signalled EXCEPT ![p] = @ \/ delivered]
  /\ UNCHANGED << binExists, binMode, platform, host, uncaught,
                  files, phase, failure, instance, proc, procPort, elapsed,
                  portString >>
  /\ UNCHANGED codecVars

\* The subprocess exits (signalled, or on its own); a running host emits
\* 'exit' on serverProcess.
ProcExit(l) ==
  /\ proc[l] = "running"
  /\ proc' = [proc EXCEPT ![l] = "exited"]
  /\ stops' = [stops EXCEPT ![l] =
                 IF host = "running" THEN EmitExit(exitListeners[l], @) ELSE @]
  /\ UNCHANGED << binExists, binMode, platform, host, uncaught,
                  files, phase, failure, instance, procPort, signalled,
                  errorListeners, exitListeners, elapsed, portString >>
  /\ UNCHANGED codecVars

Init == SupervisorInit /\ CodecIdle

Next ==
  \E l \in Launches :
    \/ Start(l)
    \/ AssertBinExistsFails(l)
    \/ Spawn(l)
    \/ ProcLaunched(l)
    \/ SpawnError(l)
    \/ ProcWritePort(l)
    \/ PollTick(l)
    \/ Stop(l)
    \/ ProcExit(l)

Spec == Init /\ [][Next]_vars

\* The event loop runs every continuation and timer callback of a running
\* host; the operating system settles a launch and ends a signalled process.
\* Nothing obliges a caller to call start() or stop(), nor the simulator to
\* become ready.
Fairness ==
  \A l \in Launches :
    /\ WF_vars(AssertBinExistsFails(l))
    /\ WF_vars(Spawn(l))
    /\ WF_vars(ProcLaunched(l) \/ SpawnError(l))
    /\ WF_vars(PollTick(l))
    /\ WF_vars(signalled[l] /\ ProcExit(l))

FairSpec == Spec /\ Fairness

-----------------------------------------------------------------------------
(* The codec: values *)

(* An optional value (undefined when absent) is a sequence of length 0 or 1. *)
Absent == << >>
Some(v) == << v >>
isNil(x) == x = Absent
isNotNil(x) == x # Absent

(* The outcome of a call: a returned value or a thrown error. *)
Return(v) == [threw |-> FALSE, error |-> [name |-> "", message |-> << >>], value |-> Some(v)]
Throw(name, message) ==
  [threw |-> TRUE, error |-> [name |-> name, message |-> message], value |-> Absent]

TopologyValidationError == Throw("TopologyValidationError", << >>)
TypeError == Throw("TypeError", << >>)

B64Alphabet ==
  << "A", "B", "C", "D", "E", "F", "G", "H", "I", "J", "K", "L", "M", "N", "O", "P",
     "Q", "R", "S", "T", "U", "V", "W", "X", "Y", "Z", "a", "b", "c", "d", "e", "f",
     "g", "h", "i", "j", "k", "l", "m", "n", "o", "p", "q", "r", "s", "t", "u", "v",
     "w", "x", "y", "z", "0", "1", "2", "3", "4", "5", "6", "7", "8", "9", "+", "/" >>

B64Char(n) == B64Alphabet[n + 1]

IsB64Char(c) == \E i \in 1..64 : B64Alphabet[i] = c

B64Value(c) == (CHOOSE i \in 1..64 : B64Alphabet[i] = c) - 1

\* base64Encode(bytes): three bytes give four characters, the rest is padded.
RECURSIVE base64Encode(_)
base64Encode(bytes) ==
  IF bytes = << >> THEN << >>
  ELSE IF Len(bytes) = 1
  THEN << B64Char(bytes[1] \div 4), B64Char((bytes[1] % 4) * 16), "=", "=" >>
  ELSE IF Len(bytes) = 2
  THEN << B64Char(bytes[1] \div 4),
          B64Char((bytes[1] % 4) * 16 + bytes[2] \div 16),
          B64Char((bytes[2] % 16) * 4), "=" >>
  ELSE << B64Char(bytes[1] \div 4),
          B64Char((bytes[1] % 4) * 16 + bytes[2] \div 16),
          B64Char((bytes[2] % 16) * 4 + bytes[3] \div 64),
          B64Char(bytes[3] % 64) >>
       \o base64Encode(SubSeq(bytes, 4, Len(bytes)))

\* One group of four characters well formed: padding only at the end.
B64GroupOk(g, last) ==
  /\ IsB64Char(g[1]) /\ IsB64Char(g[2])
  /\ \/ IsB64Char(g[3]) /\ IsB64Char(g[4])
     \/ last /\ IsB64Char(g[3]) /\ g[4] = "="
     \/ last /\ g[3] = "=" /\ g[4] = "="

RECURSIVE B64WellFormed(_)
B64WellFormed(text) ==
  \/ text = << >>
  \/ /\ Len(text) >= 4
     /\ B64GroupOk(SubSeq(text, 1, 4), Len(text) = 4)
     /\ B64WellFormed(SubSeq(text, 5, Len(text)))

RECURSIVE B64Bytes(_)
B64Bytes(text) ==
  IF text = << >> THEN << >>
  ELSE LET a == B64Value(text[1])
           b == B64Value(text[2])
           first == a * 4 + b \div 16
       IN IF text[3] = "=" THEN << first >>
          ELSE LET c == B64Value(text[3])
                   second == (b % 16) * 16 + c \div 4
               IN IF text[4] = "=" THEN << first, second >>
                  ELSE << first, second, (c % 4) * 64 + B64Value(text[4]) >>
                       \o B64Bytes(SubSeq(text, 5, Len(text)))

\* base64Decode(text): the bytes of well-formed text; anything else (undefined
\* included) is rejected with an error.
base64Decode(text) ==
  IF isNil(text) \/ ~B64WellFormed(text[1]) THEN TypeError
  ELSE Return(B64Bytes(text[1]))

\* A Principal is its bytes: base64EncodePrincipal(p) encodes
\* p.toUint8Array(), base64DecodePrincipal wraps the decoded bytes.
base64EncodePrincipal(principal) == base64Encode(principal)

base64DecodePrincipal(text) == base64Decode(text)

-----------------------------------------------------------------------------
(* The codec: CreateInstance *)

New == [type |-> "new", path |-> "", subnetId |-> << >>]
FromPath(path, subnetId) == [type |-> "fromPath", path |-> path, subnetId |-> subnetId]

SubnetConfig(dts, benchmarking, state) ==
  [enableDeterministicTimeSlicing |-> dts,
   enableBenchmarkingInstructionLimits |-> benchmarking, state |-> state]

EncodedNew == [New |-> TRUE, FromPath |-> << >>]
EncodedFromPath(path, subnet_id) ==
  [New |-> FALSE, FromPath |-> << << path >>, subnet_id >>]

encodeDtsFlag_DefaultDisabled(enableDeterministicTimeSlicing) ==
  IF enableDeterministicTimeSlicing = Some(TRUE) THEN "Enabled" ELSE "Disabled"

encodeDtsFlag(enableDeterministicTimeSlicing) ==
  IF enableDeterministicTimeSlicing = Some(FALSE) THEN "Disabled" ELSE "Enabled"

encodeInstructionConfig(enableBenchmarkingInstructionLimits) ==
  IF enableBenchmarkingInstructionLimits = Some(TRUE) THEN "Benchmarking"
  ELSE "Production"

\* encodeSubnetConfig(config?): undefined for an undefined config, the encoded
\* config for the two known state types, an error for any other.
encodeSubnetConfig(config) ==
  IF isNil(config) THEN Return(Absent)
  ELSE LET c == config[1]
       IN CASE c.state.type = "new" ->
                 Return(Some([dts_flag |-> encodeDtsFlag(c.enableDeterministicTimeSlicing),
                              instruction_config |->
                                encodeInstructionConfig(c.enableBenchmarkingInstructionLimits),
                              state_config |-> EncodedNew]))
            [] c.state.type = "fromPath" ->
                 Return(Some([dts_flag |-> encodeDtsFlag(c.enableDeterministicTimeSlicing),
                              instruction_config |->
                                encodeInstructionConfig(c.enableBenchmarkingInstructionLimits),
                              state_config |->
                                EncodedFromPath(c.state.path,
                                                base64EncodePrincipal(c.state.subnetId))]))
            [] OTHER -> Throw("Error", << "Unknown subnet state type: ", "[object Object]" >>)

\* configs.map(encodeSubnetConfig).filter(isNotNil), with configs = [] by
\* default; the first config that throws ends the call.
RECURSIVE MapEncodeSubnetConfig(_)
MapEncodeSubnetConfig(configs) ==
  IF configs = << >> THEN Return(<< >>)
  ELSE LET head == encodeSubnetConfig(Some(Head(configs)))
       IN IF head.threw THEN head
          ELSE LET rest == MapEncodeSubnetConfig(Tail(configs))
               IN IF rest.threw THEN rest
                  ELSE Return((IF isNotNil(head.value[1]) THEN << head.value[1][1] >> ELSE << >>)
                              \o rest.value[1])

encodeManySubnetConfigs(configs) ==
  MapEncodeSubnetConfig(IF isNil(configs) THEN << >> ELSE configs[1])

defaultApplicationSubnet == SubnetConfig(Absent, Absent, New)

NoRequest ==
  [nns |-> Absent, sns |-> Absent, ii |-> Absent, fiduciary |-> Absent,
   bitcoin |-> Absent, system |-> Absent, application |-> Absent,
   verifiedApplication |-> Absent, nonmainnetFeatures |-> Absent]

TopologyInvalid_GateRemoved(set) == FALSE

\* The validation gate of encodeCreateInstanceRequest.
TopologyInvalid(set) ==
  \/ /\ isNil(set.nns)
     /\ isNil(set.sns)
     /\ isNil(set.ii)
     /\ isNil(set.fiduciary)
     /\ isNil(set.bitcoin)
     /\ Len(set.system) = 0
     /\ Len(set.application) = 0
  \/ Len(set.system) < 0
  \/ Len(set.application) < 0

\* The first of the results that threw, in evaluation order.
RECURSIVE FirstThrown(_)
FirstThrown(results) ==
  IF results = << >> THEN Absent
  ELSE IF Head(results).threw THEN Some(Head(results))
  ELSE FirstThrown(Tail(results))

encodeCreateInstanceRequest(req) ==
  LET defaultOptions ==
        IF isNil(req)
        THEN [NoRequest EXCEPT !.application = Some(<< defaultApplicationSubnet >>)]
        ELSE req[1]
      nns == encodeSubnetConfig(defaultOptions.nns)
      sns == encodeSubnetConfig(defaultOptions.sns)
      ii == encodeSubnetConfig(defaultOptions.ii)
      fiduciary == encodeSubnetConfig(defaultOptions.fiduciary)
      bitcoin == encodeSubnetConfig(defaultOptions.bitcoin)
      system == encodeManySubnetConfigs(defaultOptions.system)
      application ==
        encodeManySubnetConfigs(
          IF isNil(defaultOptions.application) THEN Some(<< defaultApplicationSubnet >>)
          ELSE defaultOptions.application)
      verified_application == encodeManySubnetConfigs(defaultOptions.verifiedApplication)
      thrown == FirstThrown(<< nns, sns, ii, fiduciary, bitcoin, system, application,
                              verified_application >>)
      options ==
        [subnet_config_set |->
           [nns |-> nns.value[1], sns |-> sns.value[1], ii |-> ii.value[1],
            fiduciary |-> fiduciary.value[1], bitcoin |-> bitcoin.value[1],
            system |-> system.value[1], application |-> application.value[1],
            verified_application |-> verified_application.value[1]],
         nonmainnet_features |->
           IF isNil(defaultOptions.nonmainnetFeatures) THEN FALSE
           ELSE defaultOptions.nonmainnetFeatures[1]]
  IN IF isNotNil(thrown) THEN thrown[1]
     ELSE IF TopologyInvalid(options.subnet_config_set) THEN TopologyValidationError
     ELSE Return(options)

-----------------------------------------------------------------------------
(* The codec: CanisterCall, SubmitCanisterCall, AwaitCanisterCall *)

(* An EffectivePrincipal argument: null, undefined, or an object with the
   keys it has. *)
EPNull == [nil |-> "null", subnetId |-> Absent, canisterId |-> Absent]
EPUndefined == [nil |-> "undefined", subnetId |-> Absent, canisterId |-> Absent]
EPObject(subnetId, canisterId) ==
  [nil |-> "", subnetId |-> subnetId, canisterId |-> canisterId]

(* An EncodedEffectivePrincipal: the string 'None', or an object. *)
EncodedNone == [None |-> TRUE, SubnetId |-> Absent, CanisterId |-> Absent]
EncodedEP(SubnetId, CanisterId) ==
  [None |-> FALSE, SubnetId |-> SubnetId, CanisterId |-> CanisterId]

isNilRef(x) == x.nil \in {"null", "undefined"}

encodeEffectivePrincipal_Swapped(effectivePrincipal) ==
  IF isNilRef(effectivePrincipal) THEN Return(EncodedNone)
  ELSE IF isNotNil(effectivePrincipal.subnetId)
  THEN Return(EncodedEP(Absent, Some(base64EncodePrincipal(effectivePrincipal.subnetId[1]))))
  ELSE IF isNil(effectivePrincipal.canisterId) THEN TypeError
  ELSE Return(EncodedEP(Some(base64EncodePrincipal(effectivePrincipal.canisterId[1])), Absent))

encodeEffectivePrincipal(effectivePrincipal) ==
  IF isNilRef(effectivePrincipal) THEN Return(EncodedNone)
  ELSE IF isNotNil(effectivePrincipal.subnetId)
  THEN Return(EncodedEP(Some(base64EncodePrincipal(effectivePrincipal.subnetId[1])), Absent))
  ELSE IF isNil(effectivePrincipal.canisterId) THEN TypeError
  ELSE Return(EncodedEP(Absent, Some(base64EncodePrincipal(effectivePrincipal.canisterId[1]))))

decodeEffectivePrincipal(effectivePrincipal) ==
  IF effectivePrincipal.None THEN Return(EPNull)
  ELSE IF isNotNil(effectivePrincipal.SubnetId)
  THEN LET id == base64DecodePrincipal(effectivePrincipal.SubnetId)
       IN IF id.threw THEN id ELSE Return(EPObject(id.value, Absent))
  ELSE LET id == base64DecodePrincipal(effectivePrincipal.CanisterId)
       IN IF id.threw THEN id ELSE Return(EPObject(Absent, id.value))

CanisterError(code, description) == [code |-> code, description |-> description]

decodeCanisterCallResponse_RejectUnchecked(res) ==
  IF isNotNil(res.Err) THEN Throw("Error", << res.Err[1].description >>)
  ELSE IF isNil(res.Ok) THEN TypeError
  ELSE LET body == base64Decode(res.Ok[1].Reply)
       IN IF body.threw THEN body ELSE Return([body |-> body.value[1]])

\* res: Err and Ok are the keys the response has, Reply and Reject those of
\* its Ok. 'Reject' in res.Ok is a TypeError when res.Ok is undefined.
decodeCanisterCallResponse(res) ==
  IF isNotNil(res.Err) THEN Throw("Error", << res.Err[1].description >>)
  ELSE IF isNil(res.Ok) THEN TypeError
  ELSE IF isNotNil(res.Ok[1].Reject) THEN Throw("Error", << res.Ok[1].Reject[1] >>)
  ELSE LET body == base64Decode(res.Ok[1].Reply)
       IN IF body.threw THEN body ELSE Return([body |-> body.value[1]])

decodeAwaitCanisterCallResponse(res) == decodeCanisterCallResponse(res)

decodeSubmitCanisterCallResponse(res) ==
  IF isNotNil(res.Err) THEN Throw("Error", << res.Err[1].description >>)
  ELSE IF isNil(res.Ok) THEN TypeError
  ELSE LET ep == decodeEffectivePrincipal(res.Ok[1].effective_principal)
       IN IF ep.threw THEN ep
          ELSE Return([effectivePrincipal |-> ep.value[1],
                       messageId |-> res.Ok[1].message_id])

encodeAwaitCanisterCallRequest_NoPrincipal(req) ==
  Return([effective_principal |-> EncodedNone, message_id |-> req.messageId])

encodeAwaitCanisterCallRequest(req) ==
  LET ep == encodeEffectivePrincipal(req.effectivePrincipal)
  IN IF ep.threw THEN ep
     ELSE Return([effective_principal |-> ep.value[1], message_id |-> req.messageId])

-----------------------------------------------------------------------------
(* The codec: GetPendingHttpsOutcalls, MockPendingHttpsOutcall *)

\* decodeCanisterHttpMethod with a default instead of its throw.
decodeCanisterHttpMethod_DefaultGet(method) ==
  CASE method = "POST" -> Return("POST")
    [] method = "HEAD" -> Return("HEAD")
    [] OTHER -> Return("GET")

decodeCanisterHttpMethod(method) ==
  CASE method = "GET" -> Return("GET")
    [] method = "POST" -> Return("POST")
    [] method = "HEAD" -> Return("HEAD")
    [] OTHER -> Throw("Error", << "Unknown canister HTTP method: ", method >>)

decodeHttpHeader(header) == << header.name, header.value >>

RECURSIVE MapDecodeHttpHeader(_)
MapDecodeHttpHeader(headers) ==
  IF headers = << >> THEN << >>
  ELSE << decodeHttpHeader(Head(headers)) >> \o MapDecodeHttpHeader(Tail(headers))

\* The object literal is evaluated in the order written; the first throw ends
\* the call.
decodeHttpOutcall(res) ==
  LET subnetId == base64DecodePrincipal(Some(res.subnet_id.subnet_id))
  IN IF subnetId.threw THEN subnetId
     ELSE LET httpMethod == decodeCanisterHttpMethod(res.http_method)
          IN IF httpMethod.threw THEN httpMethod
             ELSE LET body == base64Decode(Some(res.body))
                  IN IF body.threw THEN body
                     ELSE Return([subnetId |-> subnetId.value[1],
                                  requestId |-> res.request_id,
                                  httpMethod |-> httpMethod.value[1],
                                  url |-> res.url,
                                  headers |-> MapDecodeHttpHeader(res.headers),
                                  body |-> body.value[1],
                                  maxResponseBytes |-> res.max_response_bytes])

RECURSIVE MapDecodeHttpOutcall(_)
MapDecodeHttpOutcall(res) ==
  IF res = << >> THEN Return(<< >>)
  ELSE LET head == decodeHttpOutcall(Head(res))
       IN IF head.threw THEN head
          ELSE LET rest == MapDecodeHttpOutcall(Tail(res))
               IN IF rest.threw THEN rest
                  ELSE Return(<< head.value[1] >> \o rest.value[1])

decodeGetPendingHttpsOutcallsResponse(res) == MapDecodeHttpOutcall(res)

encodeHttpHeader(header) == [name |-> header[1], value |-> header[2]]

RECURSIVE MapEncodeHttpHeader(_)
MapEncodeHttpHeader(headers) ==
  IF headers = << >> THEN << >>
  ELSE << encodeHttpHeader(Head(headers)) >> \o MapEncodeHttpHeader(Tail(headers))

(* An HttpsOutcallResponseMock with the fields its type has, and an
   EncodedHttpsOutcallResponseMock with the one wrapper it has. *)
SuccessMock(statusCode, headers, body) ==
  [type |-> "success", statusCode |-> statusCode, headers |-> Some(headers),
   body |-> Some(body), message |-> Absent]
RejectMock(statusCode, message) ==
  [type |-> "reject", statusCode |-> statusCode, headers |-> Absent,
   body |-> Absent, message |-> Some(message)]
CanisterHttpReply(status, headers, body) ==
  [CanisterHttpReply |-> Some([status |-> status, headers |-> headers, body |-> body]),
   CanisterHttpReject |-> Absent]
CanisterHttpReject(reject_code, message) ==
  [CanisterHttpReply |-> Absent,
   CanisterHttpReject |-> Some([reject_code |-> reject_code, message |-> message])]

encodeHttpsOutcallResponse(res) ==
  CASE res.type = "success" ->
         Return(CanisterHttpReply(res.statusCode, MapEncodeHttpHeader(res.headers[1]),
                                  base64Encode(res.body[1])))
    [] res.type = "reject" ->
         Return(CanisterHttpReject(res.statusCode, res.message[1]))
    [] OTHER -> Throw("Error", << "Unknown response type: ", "[object Object]" >>)

RECURSIVE MapEncodeHttpsOutcallResponse(_)
MapEncodeHttpsOutcallResponse(responses) ==
  IF responses = << >> THEN Return(<< >>)
  ELSE LET head == encodeHttpsOutcallResponse(Head(responses))
       IN IF head.threw THEN head
          ELSE LET rest == MapEncodeHttpsOutcallResponse(Tail(responses))
               IN IF rest.threw THEN rest
                  ELSE Return(<< head.value[1] >> \o rest.value[1])

encodeMockPendingHttpsOutcallRequest(req) ==
  LET response == encodeHttpsOutcallResponse(req.response)
  IN IF response.threw THEN response
     ELSE LET additional == MapEncodeHttpsOutcallResponse(req.additionalResponses)
          IN IF additional.threw THEN additional
             ELSE Return([subnet_id |-> [subnet_id |-> base64EncodePrincipal(req.subnetId)],
                          request_id |-> req.requestId,
                          response |-> response.value[1],
                          additional_responses |-> additional.value[1]])

-----------------------------------------------------------------------------
(* The codec: GetTopology *)

\* Principal.fromText of @dfinity/principal on the texts explored: the
\* management canister, the anonymous principal, the registry canister; any
\* other text here is not the text of a principal and is rejected.
PrincipalFromText(text) ==
  CASE text = "aaaaa-aa" -> Return(<< >>)
    [] text = "2vxsx-fae" -> Return(<< 4 >>)
    [] text = "rwlgt-iiaaa-aaaaa-aaaaa-cai" -> Return(<< 0, 0, 0, 0, 0, 0, 0, 0, 1, 1 >>)
    [] OTHER -> Throw("Error", << "Principal.fromText", text >>)

SubnetType ==
  [Application |-> "Application", Bitcoin |-> "Bitcoin", Fiduciary |-> "Fiduciary",
   InternetIdentity |-> "II", NNS |-> "NNS", SNS |-> "SNS", System |-> "System"]

\* decodeSubnetKind with a default instead of its throw.
decodeSubnetKind_DefaultApplication(kind) ==
  CASE kind = "Bitcoin" -> Return(SubnetType.Bitcoin)
    [] kind = "Fiduciary" -> Return(SubnetType.Fiduciary)
    [] kind = "II" -> Return(SubnetType.InternetIdentity)
    [] kind = "NNS" -> Return(SubnetType.NNS)
    [] kind = "SNS" -> Return(SubnetType.SNS)
    [] kind = "System" -> Return(SubnetType.System)
    [] OTHER -> Return(SubnetType.Application)

decodeSubnetKind(kind) ==
  CASE kind = "Application" -> Return(SubnetType.Application)
    [] kind = "Bitcoin" -> Return(SubnetType.Bitcoin)
    [] kind = "Fiduciary" -> Return(SubnetType.Fiduciary)
    [] kind = "II" -> Return(SubnetType.InternetIdentity)
    [] kind = "NNS" -> Return(SubnetType.NNS)
    [] kind = "SNS" -> Return(SubnetType.SNS)
    [] kind = "System" -> Return(SubnetType.System)
    [] OTHER -> Throw("Error", << "Unknown subnet kind: ", kind >>)

\* encoded.canister_ranges.map(range => ({start: ..., end: ...})): start is
\* decoded before end, the ranges in order; the first throw ends the call.
RECURSIVE MapDecodeCanisterRanges(_)
MapDecodeCanisterRanges(ranges) ==
  IF ranges = << >> THEN Return(<< >>)
  ELSE LET start == base64DecodePrincipal(Some(Head(ranges).start.canister_id))
       IN IF start.threw THEN start
          ELSE LET end == base64DecodePrincipal(Some(Head(ranges).end.canister_id))
               IN IF end.threw THEN end
                  ELSE LET rest == MapDecodeCanisterRanges(Tail(ranges))
                       IN IF rest.threw THEN rest
                          ELSE Return(<< [start |-> start.value[1], end |-> end.value[1]] >>
                                      \o rest.value[1])

\* The object literal is evaluated in the order written: id, type, size,
\* canisterRanges.
decodeSubnetTopology(subnetId, encoded) ==
  LET id == PrincipalFromText(subnetId)
  IN IF id.threw THEN id
     ELSE LET type == decodeSubnetKind(encoded.subnet_kind)
          IN IF type.threw THEN type
             ELSE LET canisterRanges == MapDecodeCanisterRanges(encoded.canister_ranges)
                  IN IF canisterRanges.threw THEN canisterRanges
                     ELSE Return([id |-> id.value[1], type |-> type.value[1],
                                  size |-> encoded.size,
                                  canisterRanges |-> canisterRanges.value[1]])

\* A Record<string, T> is the sequence of its entries [key, value], keys
\* distinct, in the order Object.entries gives them. decodeInstanceTopology
\* maps the entries in that order and Object.fromEntries keeps it.
RECURSIVE MapDecodeSubnetTopology(_)
MapDecodeSubnetTopology(entries) ==
  IF entries = << >> THEN Return(<< >>)
  ELSE LET head == decodeSubnetTopology(Head(entries).key, Head(entries).value)
       IN IF head.threw THEN head
          ELSE LET rest == MapDecodeSubnetTopology(Tail(entries))
               IN IF rest.threw THEN rest
                  ELSE Return(<< [key |-> Head(entries).key, value |-> head.value[1]] >>
                              \o rest.value[1])

decodeInstanceTopology(encoded) == MapDecodeSubnetTopology(encoded)

-----------------------------------------------------------------------------
(* The codec applied to bounded inputs *)

MaxIdLen == 2     \* bytes of a principal, a payload
MaxSubnets == 1   \* entries of a subnet list of a role

Bytes == {0, 77, 255}

RECURSIVE SeqsUpTo(_, _)
SeqsUpTo(S, n) ==
  IF n = 0 THEN {<< >>}
  ELSE LET shorter == SeqsUpTo(S, n - 1)
       IN shorter \cup {Append(q, x) : q \in shorter, x \in S}

Payloads == SeqsUpTo(Bytes, MaxIdLen)

Principals == Payloads \ {<< >>}

MessageIds == {<< 1 >>, << 2, 3 >>}

Messages == {"", "boom"}

PlainConfig == defaultApplicationSubnet
TunedConfig == SubnetConfig(Some(FALSE), Some(TRUE), New)
PathConfig == SubnetConfig(Some(TRUE), Some(FALSE), FromPath("/nns_state", << 77, 0 >>))
UnknownConfig ==
  SubnetConfig(Absent, Absent, [type |-> "other", path |-> "", subnetId |-> << >>])

Optional(S) == {Absent} \cup {Some(v) : v \in S}

Requests ==
  [nns : Optional({PathConfig, UnknownConfig}),
   sns : Optional({PlainConfig}),
   ii : Optional({TunedConfig}),
   fiduciary : Optional({PlainConfig}),
   bitcoin : Optional({PlainConfig}),
   system : Optional(SeqsUpTo({PlainConfig, UnknownConfig}, MaxSubnets)),
   application : Optional(SeqsUpTo({PlainConfig, TunedConfig}, MaxSubnets)),
   verifiedApplication : Optional(SeqsUpTo({PlainConfig}, MaxSubnets)),
   nonmainnetFeatures : Optional(BOOLEAN)]

EffectivePrincipals ==
  {EPNull, EPUndefined}
    \cup {EPObject(Some(p), Absent) : p \in Principals}
    \cup {EPObject(Absent, Some(p)) : p \in Principals}
    \cup {EPObject(Some(p), Some(<< 0 >>)) : p \in Principals}

\* What the simulator sends: 'None', or one tag with the base64 of an id.
EncodedEffectivePrincipals ==
  {EncodedNone}
    \cup {EncodedEP(Some(base64Encode(p)), Absent) : p \in Principals}
    \cup {EncodedEP(Absent, Some(base64Encode(p))) : p \in Principals}

CanisterErrors == {CanisterError("X", m) : m \in Messages}

CallResponses ==
  [Err : Optional(CanisterErrors),
   Ok : Optional([Reply : Optional({base64Encode(b) : b \in Payloads}),
                  Reject : Optional(Messages)])]

SubmitResponses ==
  [Err : Optional(CanisterErrors),
   Ok : Optional([effective_principal : EncodedEffectivePrincipals,
                  message_id : MessageIds])]

MaxTopologyEntries == 2   \* subnets of an instance topology

SubnetKinds ==
  {"Application", "Bitcoin", "Fiduciary", "II", "NNS", "SNS", "System",
   "Unknown", "nns"}

SubnetIdTexts == {"aaaaa-aa", "2vxsx-fae", "rwlgt-iiaaa-aaaaa-aaaaa-cai", "not a principal"}

CanisterRange(start, end) ==
  [start |-> [canister_id |-> start], end |-> [canister_id |-> end]]

\* Range lists: none, two ranges in an order that shows, one whose end is
\* not base64.
CanisterRangeLists ==
  { << >>,
    << CanisterRange(base64Encode(<< 0 >>), base64Encode(<< 77, 255 >>)),
       CanisterRange(base64Encode(<< 255 >>), base64Encode(<< 255, 0 >>)) >>,
    << CanisterRange(base64Encode(<< 0 >>), << "!" >>) >> }

EncodedSubnetTopologies ==
  {[subnet_kind |-> k, size |-> 13, canister_ranges |-> << >>] : k \in SubnetKinds}
    \cup {[subnet_kind |-> "NNS", size |-> 1, canister_ranges |-> r] :
            r \in CanisterRangeLists}

RECURSIVE EntriesUpTo(_, _, _)
EntriesUpTo(keys, values, n) ==
  IF n = 0 THEN {<< >>}
  ELSE LET shorter == EntriesUpTo(keys, values, n - 1)
       IN shorter \cup
          {Append(q, [key |-> k, value |-> v]) :
             q \in {e \in shorter : Len(e) = n - 1},
             k \in keys, v \in values}

Keys(entries) == {entries[i].key : i \in 1..Len(entries)}

EncodedInstanceTopologies ==
  {e \in EntriesUpTo(SubnetIdTexts, EncodedSubnetTopologies, MaxTopologyEntries) :
     Cardinality(Keys(e)) = Len(e)}

MaxOutcalls == 1              \* pending outcalls of one response
MaxAdditionalResponses == 1   \* additional responses of one mock

HttpMethods == {"GET", "POST", "HEAD", "PUT", "get"}

EncodedHttpHeaders == {<< >>, << [name |-> "accept", value |-> "*/*"] >>}

EncodedOutcalls ==
  [subnet_id : {[subnet_id |-> base64Encode(<< 77, 255 >>)]},
   request_id : {7},
   http_method : HttpMethods,
   url : {"https://example.com"},
   headers : EncodedHttpHeaders,
   body : {base64Encode(<< 0 >>), << "!" >>},
   max_response_bytes : Optional({100})]

Mocks ==
  {SuccessMock(200, h, << 77 >>) : h \in {<< >>, << << "accept", "*/*" >> >>}}
    \cup {RejectMock(2, m) : m \in Messages}
    \cup {[type |-> "other", statusCode |-> 200, headers |-> Absent,
           body |-> Absent, message |-> Absent]}

MockRequests ==
  [subnetId : {<< 77, 255 >>},
   requestId : {7},
   response : Mocks,
   additionalResponses : SeqsUpTo(Mocks, MaxAdditionalResponses)]

SubnetConfigs == {PlainConfig, TunedConfig, PathConfig, UnknownConfig}

\* A call: from the idle codec, or on the outcome of the call before.
Apply(name, argument, outcome, from) ==
  /\ op' = name
  /\ input' = argument
  /\ output' = outcome
  /\ prior' = from
  /\ UNCHANGED supervisorVars

EncodeCreateInstanceRequest ==
  /\ op = "none"
  /\ \E req \in Optional(Requests) :
     Apply("encodeCreateInstanceRequest", req, encodeCreateInstanceRequest(req), Absent)

EncodeEffectivePrincipal ==
  /\ op = "none"
  /\ \E x \in EffectivePrincipals :
     Apply("encodeEffectivePrincipal", x, encodeEffectivePrincipal(x), Absent)

DecodeEffectivePrincipal ==
  /\ op = "none"
  /\ \E e \in EncodedEffectivePrincipals :
     Apply("decodeEffectivePrincipal", e, decodeEffectivePrincipal(e), Absent)

\* The round trip: what encodeEffectivePrincipal returned is decoded.
DecodeEncodedEffectivePrincipal ==
  /\ op = "encodeEffectivePrincipal"
  /\ ~output.threw
  /\ Apply("decodeEffectivePrincipal", output.value[1],
           decodeEffectivePrincipal(output.value[1]), Some(input))

DecodeCanisterCallResponse ==
  /\ op = "none"
  /\ \E res \in CallResponses :
     Apply("decodeCanisterCallResponse", res, decodeCanisterCallResponse(res), Absent)

DecodeAwaitCanisterCallResponse ==
  /\ op = "none"
  /\ \E res \in CallResponses :
     Apply("decodeAwaitCanisterCallResponse", res,
           decodeAwaitCanisterCallResponse(res), Absent)

DecodeSubmitCanisterCallResponse ==
  /\ op = "none"
  /\ \E res \in SubmitResponses :
     Apply("decodeSubmitCanisterCallResponse", res,
           decodeSubmitCanisterCallResponse(res), Absent)

\* The deferred flow: what submit returned is the request of await.
EncodeAwaitCanisterCallRequest ==
  /\ op = "decodeSubmitCanisterCallResponse"
  /\ ~output.threw
  /\ Apply("encodeAwaitCanisterCallRequest", output.value[1],
           encodeAwaitCanisterCallRequest(output.value[1]), Some(input))

DecodeInstanceTopology ==
  /\ op = "none"
  /\ \E encoded \in EncodedInstanceTopologies :
     Apply("decodeInstanceTopology", encoded, decodeInstanceTopology(encoded), Absent)

EncodeSubnetConfig ==
  /\ op = "none"
  /\ \E config \in Optional(SubnetConfigs) :
     Apply("encodeSubnetConfig", config, encodeSubnetConfig(config), Absent)

DecodeGetPendingHttpsOutcallsResponse ==
  /\ op = "none"
  /\ \E res \in SeqsUpTo(EncodedOutcalls, MaxOutcalls) :
     Apply("decodeGetPendingHttpsOutcallsResponse", res,
           decodeGetPendingHttpsOutcallsResponse(res), Absent)

EncodeMockPendingHttpsOutcallRequest ==
  /\ op = "none"
  /\ \E req \in MockRequests :
     Apply("encodeMockPendingHttpsOutcallRequest", req,
           encodeMockPendingHttpsOutcallRequest(req), Absent)

CodecInit ==
  /\ SupervisorInit
  /\ binExists
  /\ platform = [arch |-> "x64", os |-> "darwin"]
  /\ files = [path \in {PortFilePath(Ppid)} |-> NoFile]
  /\ CodecIdle

CodecNext ==
  \/ EncodeCreateInstanceRequest
  \/ EncodeEffectivePrincipal
  \/ DecodeEffectivePrincipal
  \/ DecodeEncodedEffectivePrincipal
  \/ DecodeCanisterCallResponse
  \/ DecodeAwaitCanisterCallResponse
  \/ DecodeSubmitCanisterCallResponse
  \/ EncodeAwaitCanisterCallRequest
  \/ DecodeInstanceTopology
  \/ EncodeSubnetConfig
  \/ DecodeGetPendingHttpsOutcallsResponse
  \/ EncodeMockPendingHttpsOutcallRequest

CodecSpec == CodecInit /\ [][CodecNext]_vars

-----------------------------------------------------------------------------
(* Claims about the codec *)

ThrewWith(name, message) ==
  /\ output.threw
  /\ output.error.name = name
  /\ output.error.message = message
  /\ output.value = << >>

EmptyOrAbsent(list) == list = << >> \/ list = << << >> >>

\* A request that specifies no subnet in any role.
NoSubnetInAnyRole(req) ==
  /\ req.nns = << >> /\ req.sns = << >> /\ req.ii = << >>
  /\ req.fiduciary = << >> /\ req.bitcoin = << >>
  /\ EmptyOrAbsent(req.system)
  /\ EmptyOrAbsent(req.application)
  /\ EmptyOrAbsent(req.verifiedApplication)

DefaultEncodedApplication ==
  << [dts_flag |-> "Enabled", instruction_config |-> "Production",
      state_config |-> [New |-> TRUE, FromPath |-> << >>]] >>

C5_AbsentRequestDefaults ==
  (op = "encodeCreateInstanceRequest" /\ input = << >>) =>
    /\ ~output.threw
    /\ output.value =
         << [subnet_config_set |->
               [nns |-> << >>, sns |-> << >>, ii |-> << >>, fiduciary |-> << >>,
                bitcoin |-> << >>, system |-> << >>,
                application |-> DefaultEncodedApplication,
                verified_application |-> << >>],
             nonmainnet_features |-> FALSE] >>

C5_Witness ==
  /\ op = "encodeCreateInstanceRequest"
  /\ input = << >>
  /\ ~output.threw
  /\ Len(output.value[1].subnet_config_set.application) = 1

\* C6: decodeCanisterCallResponse (and decodeAwaitCanisterCallResponse): Err
\* raises an error with its description verbatim; otherwise Ok.Reject raises
\* an error with the reject message verbatim; otherwise Ok.Reply returns the
\* decoded reply bytes; any other shape raises and returns nothing.
C6_CallResultClassification ==
  (op \in {"decodeCanisterCallResponse", "decodeAwaitCanisterCallResponse"}) =>
    IF input.Err # << >> THEN ThrewWith("Error", << input.Err[1].description >>)
    ELSE IF input.Ok = << >> THEN output.threw /\ output.value = << >>
    ELSE IF input.Ok[1].Reject # << >>
         THEN ThrewWith("Error", << input.Ok[1].Reject[1] >>)
    ELSE IF input.Ok[1].Reply # << >>
         THEN /\ ~output.threw
              /\ \A b \in Payloads :
                   input.Ok[1].Reply[1] = base64Encode(b) => output.value[1].body = b
    ELSE output.threw /\ output.value = << >>

C6_Witness ==
  /\ op = "decodeAwaitCanisterCallResponse"
  /\ input.Err = << >>
  /\ input.Ok # << >>
  /\ input.Ok[1].Reply = << << "T", "f", "8", "=" >> >>
  /\ ~output.threw
  /\ output.value[1].body = << 77, 255 >>

\* An effective principal of the claim: null, {subnetId: p} or {canisterId: p}.
ClaimedEffectivePrincipal(x) ==
  \/ x = [nil |-> "null", subnetId |-> << >>, canisterId |-> << >>]
  \/ x.nil = "" /\ (x.subnetId = << >>) # (x.canisterId = << >>)

\* C7: decodeEffectivePrincipal(encodeEffectivePrincipal(x)) = x for x null,
\* {subnetId: p} or {canisterId: p}; null and undefined encode to 'None',
\* 'None' decodes to null, the subnet variant encodes to {SubnetId}, the
\* canister variant to {CanisterId}.
C7_EffectivePrincipalRoundTrip ==
  /\ (op = "decodeEffectivePrincipal" /\ prior # << >>
        /\ ClaimedEffectivePrincipal(prior[1]))
       => ~output.threw /\ output.value[1] = prior[1]
  /\ (op = "decodeEffectivePrincipal" /\ input.None)
       => output.value = << [nil |-> "null", subnetId |-> << >>, canisterId |-> << >>] >>
  /\ (op = "encodeEffectivePrincipal" /\ input.nil # "")
       => output.value = << [None |-> TRUE, SubnetId |-> << >>, CanisterId |-> << >>] >>
  /\ (op = "encodeEffectivePrincipal" /\ ClaimedEffectivePrincipal(input)
        /\ input.nil = "")
       => /\ ~output.threw
          /\ ~output.value[1].None
          /\ (output.value[1].SubnetId # << >>) = (input.subnetId # << >>)
          /\ (output.value[1].CanisterId # << >>) = (input.canisterId # << >>)

C7_Witness ==
  /\ op = "decodeEffectivePrincipal"
  /\ prior = << [nil |-> "", subnetId |-> << << 77, 255 >> >>, canisterId |-> << >>] >>
  /\ input = [None |-> FALSE, SubnetId |-> << << "T", "f", "8", "=" >> >>,
              CanisterId |-> << >>]
  /\ output.value = prior

\* C8: for a submit response {Ok: id}, encodeAwaitCanisterCallRequest of the
\* decoded response equals id; a submit response carrying Err raises an error
\* with its description and yields nothing.
C8_SubmitIdReplayedVerbatim ==
  /\ op = "encodeAwaitCanisterCallRequest" =>
       /\ prior # << >>
       /\ ~output.threw
       /\ output.value = prior[1].Ok
  /\ (op = "decodeSubmitCanisterCallResponse" /\ input.Err # << >>)
       => ThrewWith("Error", << input.Err[1].description >>)
  /\ (op = "decodeSubmitCanisterCallResponse" /\ input.Err = << >> /\ input.Ok # << >>)
       => ~output.threw /\ output.value[1].messageId = input.Ok[1].message_id

C8_Witness ==
  /\ op = "encodeAwaitCanisterCallRequest"
  /\ prior # << >>
  /\ prior[1].Ok[1].effective_principal.CanisterId = << << "T", "f", "8", "=" >> >>
  /\ prior[1].Ok[1].message_id = << 2, 3 >>
  /\ output.value = prior[1].Ok

SevenSubnetKinds == {"Application", "Bitcoin", "Fiduciary", "II", "NNS", "SNS", "System"}

\* Entry i of a wire topology decodes on its own: its key is the text of a
\* principal and the endpoints of its ranges are base64.
KeyAndRangesDecode(entry) ==
  /\ ~PrincipalFromText(entry.key).threw
  /\ \A r \in 1..Len(entry.value.canister_ranges) :
       /\ B64WellFormed(entry.value.canister_ranges[r].start.canister_id)
       /\ B64WellFormed(entry.value.canister_ranges[r].end.canister_id)

\* C12: decodeInstanceTopology returns the keys of the wire map, each with
\* the id parsed from the key, the enum member of its subnet_kind, its size
\* and its canister ranges decoded in order; a subnet_kind that is none of the
\* seven tokens makes the whole decode fail, with the unknown-kind error of
\* that token when everything before it decodes.
C12_TopologyDecoded ==
  op = "decodeInstanceTopology" =>
    /\ (\E i \in 1..Len(input) : input[i].value.subnet_kind \notin SevenSubnetKinds)
         => output.threw /\ output.value = << >>
    /\ \A i \in 1..Len(input) :
         (/\ input[i].value.subnet_kind \notin SevenSubnetKinds
          /\ ~PrincipalFromText(input[i].key).threw
          /\ \A j \in 1..(i - 1) :
               /\ KeyAndRangesDecode(input[j])
               /\ input[j].value.subnet_kind \in SevenSubnetKinds)
           => ThrewWith("Error", << "Unknown subnet kind: ", input[i].value.subnet_kind >>)
    /\ (\A i \in 1..Len(input) :
          /\ KeyAndRangesDecode(input[i])
          /\ input[i].value.subnet_kind \in SevenSubnetKinds)
         => ~output.threw
    /\ ~output.threw =>
         LET decoded == output.value[1]
         IN /\ Len(decoded) = Len(input)
            /\ \A i \in 1..Len(input) :
                 LET wire == input[i].value
                     subnet == decoded[i].value
                 IN /\ decoded[i].key = input[i].key
                    /\ << subnet.id >> = PrincipalFromText(input[i].key).value
                    /\ wire.subnet_kind \in SevenSubnetKinds
                    /\ subnet.type = wire.subnet_kind
                    /\ subnet.size = wire.size
                    /\ Len(subnet.canisterRanges) = Len(wire.canister_ranges)
                    /\ \A r \in 1..Len(wire.canister_ranges) :
                         /\ base64Encode(subnet.canisterRanges[r].start)
                              = wire.canister_ranges[r].start.canister_id
                         /\ base64Encode(subnet.canisterRanges[r].end)
                              = wire.canister_ranges[r].end.canister_id

C12_Witness ==
  /\ op = "decodeInstanceTopology"
  /\ Len(input) = 2
  /\ input[1].key = "rwlgt-iiaaa-aaaaa-aaaaa-cai"
  /\ input[1].value.subnet_kind = "NNS"
  /\ Len(input[1].value.canister_ranges) = 2
  /\ input[2].value.subnet_kind = "II"
  /\ ~output.threw
  /\ output.value[1][1].value.id = << 0, 0, 0, 0, 0, 0, 0, 0, 1, 1 >>
  /\ output.value[1][1].value.canisterRanges[2] = [start |-> << 255 >>, end |-> << 255, 0 >>]
  /\ output.value[1][2].value.type = "II"

ThrewNothingReturned == output.threw /\ output.value = << >>

AllMocks(req) == << req.response >> \o req.additionalResponses

\* C13: a subnet config whose state type is neither 'new' nor 'fromPath', a
\* pending outcall whose method token is none of GET, POST, HEAD, and a mock
\* whose type is neither 'success' nor 'reject' each raise an error and yield
\* no value; New encodes to 'New', FromPath to {FromPath: [path, {subnet_id}]},
\* a known method to its enum member, success to a CanisterHttpReply wrapper,
\* reject to a CanisterHttpReject wrapper, none of them to an error.
C13_UnknownTagsFatal ==
  /\ (op = "encodeSubnetConfig" /\ input # << >>) =>
       CASE input[1].state.type = "new" ->
              /\ ~output.threw
              /\ output.value[1][1].state_config = [New |-> TRUE, FromPath |-> << >>]
         [] input[1].state.type = "fromPath" ->
              /\ ~output.threw
              /\ output.value[1][1].state_config =
                   [New |-> FALSE,
                    FromPath |-> << << input[1].state.path >>,
                                    base64Encode(input[1].state.subnetId) >>]
         [] OTHER -> ThrewNothingReturned
  /\ op = "decodeGetPendingHttpsOutcallsResponse" =>
       /\ (\E i \in 1..Len(input) : input[i].http_method \notin {"GET", "POST", "HEAD"})
            => ThrewNothingReturned
       /\ (\A i \in 1..Len(input) :
             /\ input[i].http_method \in {"GET", "POST", "HEAD"}
             /\ B64WellFormed(input[i].body))
            => /\ ~output.threw
               /\ Len(output.value[1]) = Len(input)
               /\ \A i \in 1..Len(input) :
                    output.value[1][i].httpMethod = input[i].http_method
  /\ op = "encodeMockPendingHttpsOutcallRequest" =>
       IF \E i \in 1..Len(AllMocks(input)) :
            AllMocks(input)[i].type \notin {"success", "reject"}
       THEN ThrewNothingReturned
       ELSE /\ ~output.threw
            /\ \A i \in 1..Len(AllMocks(input)) :
                 LET mock == AllMocks(input)[i]
                     encoded == (<< output.value[1].response >>
                                   \o output.value[1].additional_responses)[i]
                 IN IF mock.type = "success"
                    THEN /\ encoded.CanisterHttpReject = << >>
                         /\ encoded.CanisterHttpReply # << >>
                         /\ encoded.CanisterHttpReply[1].status = mock.statusCode
                         /\ encoded.CanisterHttpReply[1].body = base64Encode(mock.body[1])
                    ELSE /\ encoded.CanisterHttpReply = << >>
                         /\ encoded.CanisterHttpReject # << >>
                         /\ encoded.CanisterHttpReject[1].reject_code = mock.statusCode
                         /\ encoded.CanisterHttpReject[1].message = mock.message[1]

C13_Witness ==
  /\ op = "decodeGetPendingHttpsOutcallsResponse"
  /\ Len(input) = 1
  /\ input[1].http_method = "PUT"
  /\ B64WellFormed(input[1].body)
  /\ output.threw
  /\ output.error.message = << "Unknown canister HTTP method: ", "PUT" >>

\* C14: a request that specifies a subnet in some role (verifiedApplication
\* included, system and application being empty lists or not) is never
\* rejected with TopologyValidationError.
C14_OnlyEmptyRequestsRejected ==
  (op = "encodeCreateInstanceRequest" /\ input # << >> /\ ~NoSubnetInAnyRole(input[1]))
    => ~(output.threw /\ output.error.name = "TopologyValidationError")

-----------------------------------------------------------------------------
(* Claims about the supervisor *)

ParsedPort(l) == parseInt(portString[l])

\* C1: start() has returned an instance only in Ready, after a poll attempt
\* read the readiness file and its content parsed as a valid port number;
\* getUrl() of every instance is http://127.0.0.1:<p> with <p> that parsed
\* port; no instance and no URL exist in any other phase, Starting included.
C1_ReadyOnlyAfterParsedPort ==
  \A l \in Launches :
    /\ phase[l] = "Ready" <=> instance[l] # NoInstance
    /\ instance[l] # NoInstance =>
         /\ portString[l] # NoFile
         /\ ~isNaN(ParsedPort(l))
         /\ ParsedPort(l).value \in 1..65535
         /\ getUrl(l) = << "http://127.0.0.1:" >> \o NumberToChars(ParsedPort(l).value)
         /\ instance[l].serverProcess = l
    /\ instance[l] = NoInstance => getUrl(l) = << >>

C1_Witness ==
  \E l \in Launches :
    /\ phase[l] = "Ready"
    /\ portString[l] = << "8", "0", "8", "1", "\n" >>
    /\ getUrl(l) = << "http://127.0.0.1:", "8", "0", "8", "1" >>

FileParses == ~isNaN(parseInt(readFileAsString(PortFilePath(Ppid))))

\* C2: if the readiness file never receives content that parses as an
\* integer, a start() that reached its poll never ends in Ready and
\* eventually ends in Failed with BinTimeoutError.
C2_TimeoutFailure ==
  \A l \in Launches :
    ([]~FileParses /\ <>(phase[l] = "Starting")) =>
      /\ [](phase[l] # "Ready")
      /\ <>(phase[l] = "Failed" /\ failure[l] = [name |-> "BinTimeoutError", detail |-> << >>])

\* C3: a stop() promise is resolved only once the process has exited, and a
\* promise that was pending when the process reported an 'error' is rejected
\* with that error.
C3_StopResolvesAfterExitRejectsOnError ==
  \A l \in Launches : \A k \in 1..Len(stops[l]) :
    /\ stops[l][k].state = "resolved" => proc[l] = "exited"
    /\ stops[l][k].reported # NoError =>
         /\ stops[l][k].state = "rejected"
         /\ stops[l][k].error = stops[l][k].reported

\* C9: a stop() called after the process has exited eventually resolves.
C9_StopAfterExitResolves ==
  \A l \in Launches : \A k \in 1..MaxStops :
    [](  (Len(stops[l]) >= k /\ stops[l][k].afterExit)
      => <>(Len(stops[l]) >= k /\ stops[l][k].state = "resolved"))

\* C10: with the binary missing, start() fails with BinNotFoundError carrying
\* the binary's path, straight from the existence check: no chmod, no
\* subprocess, no listener, no poll attempt; and the failure is final.
C10_BinNotFoundInv ==
  \A l \in Launches :
    /\ (~binExists /\ phase[l] \notin {"NotStarted", "Checking"}) =>
         /\ phase[l] = "Failed"
         /\ failure[l] = [name |-> "BinNotFoundError",
                          detail |-> << "__dirname", "..", "pocket-ic" >>]
    /\ failure[l].name = "BinNotFoundError" =>
         /\ ~binExists
         /\ phase[l] = "Failed"
         /\ binMode = "orig"
         /\ proc[l] = "none"
         /\ errorListeners[l] = << >>
         /\ portString[l] = NoFile
         /\ elapsed[l] = 0
         /\ instance[l] = NoInstance

C10_BinNotFound ==
  /\ []C10_BinNotFoundInv
  /\ [][\A l \in Launches :
          failure[l].name = "BinNotFoundError" =>
            /\ phase'[l] = phase[l]
            /\ failure'[l] = failure[l]
            /\ proc'[l] = proc[l]
            /\ portString'[l] = portString[l]]_vars

C10_Witness ==
  \E l \in Launches :
    /\ phase[l] = "Failed"
    /\ failure[l].name = "BinNotFoundError"
    /\ proc[l] = "none"

\* The launch of l failed: its subprocess reported the launch 'error'.
LaunchErrorReported(l) == proc[l] = "failed"

\* C11: once the subprocess of a start() has reported a launch error, that
\* start() never ends in Ready nor with BinTimeoutError, and it eventually
\* ends in Failed with the error the platform calls for:
\* BinStartMacOSArmError on ARM macOS, BinStartError wrapping the cause
\* otherwise.
C11_LaunchErrorFailsStart ==
  \A l \in Launches :
    /\ [](LaunchErrorReported(l) =>
            /\ phase[l] # "Ready"
            /\ failure[l].name # "BinTimeoutError")
    /\ [](LaunchErrorReported(l) =>
            <>(/\ phase[l] = "Failed"
               /\ failure[l] = (IF platform.arch = "arm64" /\ platform.os = "darwin"
                                THEN [name |-> "BinStartMacOSArmError",
                                      detail |-> << "spawn" >>]
                                ELSE [name |-> "BinStartError",
                                      detail |-> << "spawn" >>])))

\* C15: the port in the URL of the instance a start() returned is the port
\* its own subprocess wrote; a port that another launch left in or wrote to
\* the readiness file is never adopted.
C15_PortOfOwnSubprocess ==
  \A l \in Launches :
    instance[l] # NoInstance =>
      /\ procPort[l] = ListenPort(l)
      /\ getUrl(l) = << "http://127.0.0.1:" >> \o NumberToChars(procPort[l])

\* The handle of the subprocess of launch l is held: start() of l is still
\* running, or an instance made of that handle was returned.
HandleHeld(l) ==
  \/ phase[l] \in {"Checking", "Starting"}
  \/ \E i \in Launches : instance[i] # NoInstance /\ instance[i].serverProcess = l

\* C16: a subprocess that is running is one whose start() is in progress or
\* whose handle was returned in an instance; after a start() that failed, its
\* subprocess is not running or its handle is held.
C16_NoOrphanedSubprocess ==
  \A l \in Launches : proc[l] = "running" => HandleHeld(l)

\* Failed is absorbing: a failed start() never becomes Ready, nor anything else.
C16_FailedAbsorbing ==
  [][\A l \in Launches : phase[l] = "Failed" => phase'[l] = "Failed"]_vars

=============================================================================
